---- MODULE Spec2Model ----
(***************************************************************************)
(* candle-kernels: the build script (build.rs) that compiles the CUDA      *)
(* kernels either to PTX through bindgen_cuda or to CUBIN through nvcc,    *)
(* and the runtime module registry (src/lib.rs) compiled against the       *)
(* binding file the build script leaves in OUT_DIR.                        *)
(*                                                                         *)
(* A Rust String is a sequence of one-character strings; a byte string is  *)
(* a sequence of numbers in 0..255; a &str payload is a sequence of        *)
(* Unicode code points.                                                    *)
(***************************************************************************)
EXTENDS Integers, Sequences, FiniteSets, TLC

VARIABLES
    env,          \* the build's environment: what env::var returns per name
    out_dir,      \* files of OUT_DIR: file name -> [fresh, data]
    pc,           \* position of the build / of the dependent compilation
    stdout,       \* cargo directives and warnings printed by build.rs
    ran,          \* Compilation Strategies entered in this build
    compute_cap,  \* build_cubin_modules' local compute_cap
    probe,        \* nvidia-smi runs and what each returned
    src_seen,     \* what src.exists() returned, per catalog position
    nvcc_runs,    \* nvcc invocations, in order, with their outcome
    builder_runs, \* calls of bindgen_cuda's build_ptx, with their outcome
    error,        \* the panic that ended the build, if any
    included,     \* the binding file lib.rs include!s
    modules,      \* lib.rs' Module constants, in mdl! order
    call          \* the last runtime accessor call and its outcome

vars == <<env, out_dir, pc, stdout, ran, compute_cap, probe, src_seen,
          nvcc_runs, builder_runs, error, included, modules, call>>

-----------------------------------------------------------------------------
(* Rust strings *)

Upper == <<"A","B","C","D","E","F","G","H","I","J","K","L","M",
           "N","O","P","Q","R","S","T","U","V","W","X","Y","Z">>
Lower == <<"a","b","c","d","e","f","g","h","i","j","k","l","m",
           "n","o","p","q","r","s","t","u","v","w","x","y","z">>
Digits == {"0","1","2","3","4","5","6","7","8","9"}
White == {" ", "\n", "\t", "\r"}

LowerChar(c) ==
    IF \E i \in 1..Len(Upper) : Upper[i] = c
    THEN Lower[CHOOSE i \in 1..Len(Upper) : Upper[i] = c] ELSE c

UpperChar(c) ==
    IF \E i \in 1..Len(Lower) : Lower[i] = c
    THEN Upper[CHOOSE i \in 1..Len(Lower) : Lower[i] = c] ELSE c

to_lowercase(s) == [i \in 1..Len(s) |-> LowerChar(s[i])]

to_uppercase(s) == [i \in 1..Len(s) |-> UpperChar(s[i])]

RECURSIVE trim_start(_)
trim_start(s) ==
    IF s # <<>> /\ Head(s) \in White THEN trim_start(Tail(s)) ELSE s

RECURSIVE trim_end(_)
trim_end(s) ==
    IF s # <<>> /\ s[Len(s)] \in White
    THEN trim_end(SubSeq(s, 1, Len(s) - 1)) ELSE s

trim(s) == trim_end(trim_start(s))

RECURSIVE replace_dot(_)
replace_dot(s) ==
    IF s = <<>> THEN <<>>
    ELSE IF Head(s) = "." THEN replace_dot(Tail(s))
    ELSE <<Head(s)>> \o replace_dot(Tail(s))

is_ascii_digit(c) == c \in Digits

\* str::split_whitespace: the maximal runs of non-whitespace characters
RECURSIVE split_ws(_, _)
split_ws(s, cur) ==
    IF s = <<>> THEN (IF cur = <<>> THEN <<>> ELSE <<cur>>)
    ELSE IF Head(s) \in White
         THEN (IF cur = <<>> THEN <<>> ELSE <<cur>>) \o split_ws(Tail(s), <<>>)
         ELSE split_ws(Tail(s), cur \o <<Head(s)>>)

split_whitespace(s) == split_ws(s, <<>>)

\* String::from_utf8_lossy on the probe's stdout: a byte that is not valid
\* UTF-8 (written "<ff>") becomes U+FFFD; the ASCII bytes decode to themselves
ReplacementChar == "<U+FFFD>"
InvalidByte == "<ff>"
from_utf8_lossy(bytes) ==
    [i \in 1..Len(bytes) |-> IF bytes[i] = InvalidByte THEN ReplacementChar ELSE bytes[i]]

-----------------------------------------------------------------------------
(* env::var *)

EnvErr == [ok |-> FALSE, val |-> <<>>]
Ok(s) == [ok |-> TRUE, val |-> s]

S_ptx == <<"p","t","x">>
S_cubin == <<"c","u","b","i","n">>

\* Result::unwrap_or_else(|_| default)
unwrap_or(r, default) == IF r.ok THEN r.val ELSE default

-----------------------------------------------------------------------------
(* The catalogs *)

\* build.rs: the kernel list of build_cubin_modules
kernels == <<
    <<"a","f","f","i","n","e">>,
    <<"b","i","n","a","r","y">>,
    <<"c","a","s","t">>,
    <<"c","o","n","v">>,
    <<"f","i","l","l">>,
    <<"i","n","d","e","x","i","n","g">>,
    <<"q","u","a","n","t","i","z","e","d">>,
    <<"r","e","d","u","c","e">>,
    <<"s","o","r","t">>,
    <<"t","e","r","n","a","r","y">>,
    <<"u","n","a","r","y">> >>

\* lib.rs: enum Id, its variants in declaration order; the discriminant of a
\* variant (id as u32) is its position, counted from 0
Id == <<"Affine", "Binary", "Cast", "Conv", "Fill", "Indexing", "Quantized", "Reduce", "Sort", "Ternary", "Unary">>

discriminant(id) == (CHOOSE i \in 1..Len(Id) : Id[i] = id) - 1

\* lib.rs: pub const ALL_IDS
ALL_IDS == <<"Affine", "Binary", "Cast", "Conv", "Fill", "Indexing", "Quantized", "Reduce", "Sort", "Ternary", "Unary">>

\* lib.rs: the mdl!(CST, Id) invocations, in order
mdl_invocations == <<
    [cst |-> <<"A","F","F","I","N","E">>, id |-> "Affine"],
    [cst |-> <<"B","I","N","A","R","Y">>, id |-> "Binary"],
    [cst |-> <<"C","A","S","T">>, id |-> "Cast"],
    [cst |-> <<"C","O","N","V">>, id |-> "Conv"],
    [cst |-> <<"F","I","L","L">>, id |-> "Fill"],
    [cst |-> <<"I","N","D","E","X","I","N","G">>, id |-> "Indexing"],
    [cst |-> <<"Q","U","A","N","T","I","Z","E","D">>, id |-> "Quantized"],
    [cst |-> <<"R","E","D","U","C","E">>, id |-> "Reduce"],
    [cst |-> <<"S","O","R","T">>, id |-> "Sort"],
    [cst |-> <<"T","E","R","N","A","R","Y">>, id |-> "Ternary"],
    [cst |-> <<"U","N","A","R","Y">>, id |-> "Unary"] >>

IdNotFound == 0 - 1

\* lib.rs: const fn module_index; IdNotFound stands for panic!("id not found")
RECURSIVE module_index_scan(_, _)
module_index_scan(id, i) ==
    IF i < Len(ALL_IDS)
    THEN IF discriminant(ALL_IDS[i + 1]) = discriminant(id) THEN i
         ELSE module_index_scan(id, i + 1)
    ELSE IdNotFound

module_index_from_one(id) == module_index_scan(id, 1)

module_index(id) == module_index_scan(id, 0)

-----------------------------------------------------------------------------
(* Paths and files of the build *)

S_src_dir == <<"s","r","c","/">>
S_cu == <<".","c","u">>
S_dot_cubin == <<".","c","u","b","i","n">>
S_dot_ptx == <<".","p","t","x">>
S_ptx_rs == <<"p","t","x",".","r","s">>
S_cubin_rs == <<"c","u","b","i","n",".","r","s">>

\* format!("src/{}.cu", kernel_name)
src_path(kernel_name) == S_src_dir \o kernel_name \o S_cu

\* out_dir.join(format!("{}.cubin", kernel_name)): the file's name in OUT_DIR
dst_path(kernel_name) == kernel_name \o S_dot_cubin

NoFiles == [n \in {} |-> 0]

Put(dir, name, file) ==
    [n \in DOMAIN dir \cup {name} |-> IF n = name THEN file ELSE dir[n]]

RECURSIVE PutAll(_, _)
PutAll(dir, files) ==
    IF files = <<>> THEN dir
    ELSE PutAll(Put(dir, Head(files).name, Head(files).file), Tail(files))

\* What nvcc leaves at dst for a source and an architecture: opaque bytes,
\* an ELF image, distinct per unit
nvcc_output(k, cap) == <<127, 69, 76, 70, k, Len(cap)>>

\* What bindgen_cuda leaves in <unit>.ptx: opaque text (with non-ASCII
\* characters in a comment), distinct per unit
ptx_text(k) == <<47, 47, 233, 8364, 10, 64 + k>>

StaleBytes == <<0>>
StaleText == <<48>>

-----------------------------------------------------------------------------
(* The Binding Generator *)

cubin_rs_line_lowercase(kernel_name) ==
    [const_name |-> kernel_name, ty |-> "&[u8]", macro |-> "include_bytes!",
     path |-> <<"/">> \o kernel_name \o S_dot_cubin]

\* build.rs generate_cubin_rs: the line of one kernel,
\* pub const NAME: &[u8] = include_bytes!(concat!(env!("OUT_DIR"), "/name.cubin"));
cubin_rs_line(kernel_name) ==
    [const_name |-> to_uppercase(kernel_name), ty |-> "&[u8]",
     macro |-> "include_bytes!",
     path |-> <<"/">> \o kernel_name \o S_dot_cubin]

\* bindgen_cuda's Bindings::write: one text constant per kernel file,
\* pub const NAME: &str = include_str!(concat!(env!("OUT_DIR"), "/name.ptx"));
ptx_rs_line(kernel_name) ==
    [const_name |-> to_uppercase(kernel_name), ty |-> "&str",
     macro |-> "include_str!",
     path |-> <<"/">> \o kernel_name \o S_dot_ptx]

-----------------------------------------------------------------------------
(* The build's inputs *)

\* most GPUs nvidia-smi reports (one output line each)
MaxGpus == 2

FormatValues ==
    {EnvErr, Ok(S_ptx), Ok(S_cubin), Ok(<<"P","T","X">>),
     Ok(<<"C","u","b","i","n">>), Ok(<<"f","a","t","b","i","n">>),
     Ok(<<"F","a","t","b","i","n">>), Ok(<<>>), Ok(<<"p","t","x"," ">>)}

CapValues ==
    {EnvErr, Ok(<<"8","6">>), Ok(<<"8","0">>), Ok(<<"9","0","a">>),
     Ok(<<>>), Ok(<<"8",".","6">>)}

FlagValues ==
    {EnvErr, Ok(<<"-","D","A"," "," ","-","D","B">>), Ok(<<" ">>)}

\* lines nvidia-smi --query-gpu=compute_cap --format=csv,noheader may print
ProbeLines ==
    {<<"8",".","6">>, <<"8",".","0">>, <<"7",".","5"," ">>, <<>>,
     <<"N","/","A">>, <<"8",InvalidByte>>}

RECURSIVE JoinLines(_)
JoinLines(lines) ==
    IF lines = <<>> THEN <<>>
    ELSE IF Len(lines) = 1 THEN Head(lines)
    ELSE Head(lines) \o <<"\n">> \o JoinLines(Tail(lines))

ProbeStdouts ==
    {JoinLines(ls) \o nl :
        ls \in UNION {[1..n -> ProbeLines] : n \in 0..MaxGpus},
        nl \in {<<>>, <<"\n">>}}

\* Command::output() of nvidia-smi: it could not be started, or it ran and
\* left an exit status and its standard output
ProbeRuns ==
    {[spawned |-> FALSE, success |-> FALSE, stdout |-> <<>>]}
    \cup {[spawned |-> TRUE, success |-> s, stdout |-> o] :
            s \in BOOLEAN, o \in ProbeStdouts}

StaleFile(data) == [fresh |-> FALSE, data |-> data]
FreshFile(data) == [fresh |-> TRUE, data |-> data]

StalePtxFiles ==
    <<[name |-> S_ptx_rs,
       file |-> StaleFile([k \in 1..Len(kernels) |-> ptx_rs_line(kernels[k])])]>>
    \o [k \in 1..Len(kernels) |->
          [name |-> kernels[k] \o S_dot_ptx, file |-> StaleFile(StaleText)]]

StaleCubinFiles ==
    <<[name |-> S_cubin_rs,
       file |-> StaleFile([k \in 1..Len(kernels) |-> cubin_rs_line(kernels[k])])]>>
    \o [k \in 1..Len(kernels) |->
          [name |-> dst_path(kernels[k]), file |-> StaleFile(StaleBytes)]]

\* OUT_DIR as an earlier build may have left it
InitialOutDirs ==
    {NoFiles, PutAll(NoFiles, StalePtxFiles), PutAll(NoFiles, StaleCubinFiles),
     PutAll(NoFiles, StalePtxFiles \o StaleCubinFiles)}

NoError == [kind |-> "none", subject |-> <<>>, catalog |-> <<>>]
Panic(kind, subject, catalog) ==
    [kind |-> kind, subject |-> subject, catalog |-> catalog]

NoCall == [fn |-> "none", module |-> 0, panicked |-> FALSE, ret |-> <<>>]

Line(text, arg) == [line |-> text, arg |-> arg]

Init ==
    /\ env \in [CANDLE_CUDA_MODULE_FORMAT : FormatValues,
                CUDA_COMPUTE_CAP : CapValues,
                CUDA_NVCC_FLAGS : FlagValues]
    /\ out_dir \in InitialOutDirs
    /\ pc = "main"
    /\ stdout = <<>>
    /\ ran = {}
    /\ compute_cap = <<>>
    /\ probe = <<>>
    /\ src_seen = <<>>
    /\ nvcc_runs = <<>>
    /\ builder_runs = <<>>
    /\ error = NoError
    /\ included = <<>>
    /\ modules = <<>>
    /\ call = NoCall

-----------------------------------------------------------------------------
(* build.rs: main *)

match_format_default_ptx(module_format) ==
    IF module_format = S_cubin THEN "cubin" ELSE "ptx"

\* the arms of match module_format.as_str()
match_format(module_format) ==
    IF module_format = S_ptx THEN "ptx"
    ELSE IF module_format = S_cubin THEN "cubin"
    ELSE "other"

main_directives ==
    <<Line("cargo::rerun-if-changed=build.rs", <<>>),
      Line("cargo::rerun-if-changed=src/compatibility.cuh", <<>>),
      Line("cargo::rerun-if-changed=src/cuda_utils.cuh", <<>>),
      Line("cargo::rerun-if-changed=src/binary_op_macros.cuh", <<>>),
      Line("cargo::rerun-if-env-changed=CANDLE_CUDA_MODULE_FORMAT", <<>>),
      Line("cargo::rerun-if-env-changed=CUDA_COMPUTE_CAP", <<>>),
      Line("cargo::rerun-if-env-changed=CUDA_NVCC_FLAGS", <<>>)>>

main ==
    /\ pc = "main"
    /\ LET module_format ==
               to_lowercase(unwrap_or(env.CANDLE_CUDA_MODULE_FORMAT, S_ptx))
           arm == match_format(module_format)
       IN  /\ stdout' = stdout \o main_directives
           /\ pc' = CASE arm = "ptx" -> "build_ptx_modules"
                      [] arm = "cubin" -> "build_cubin_modules"
                      [] OTHER -> "build_failed"
           /\ error' = IF arm \in {"ptx", "cubin"} THEN error
                       ELSE Panic("Invalid CANDLE_CUDA_MODULE_FORMAT",
                                  module_format, <<>>)
    /\ UNCHANGED <<env, out_dir, ran, compute_cap, probe, src_seen, nvcc_runs,
                   builder_runs, included, modules, call>>

-----------------------------------------------------------------------------
(* build.rs: build_ptx_modules *)

\* builder.build_ptx() failed; it succeeded and bindings.write failed; both
\* succeeded
BuilderOutcomes == {"build_ptx_failed", "write_failed", "ok"}

ptx_files ==
    [k \in 1..Len(kernels) |->
        [name |-> kernels[k] \o S_dot_ptx, file |-> FreshFile(ptx_text(k))]]

ptx_rs_file ==
    [name |-> S_ptx_rs,
     file |-> FreshFile([k \in 1..Len(kernels) |-> ptx_rs_line(kernels[k])])]

build_ptx_modules ==
    /\ pc = "build_ptx_modules"
    /\ ran' = ran \cup {"ptx"}
    /\ \E outcome \in BuilderOutcomes :
        /\ builder_runs' = Append(builder_runs, outcome)
        /\ out_dir' = CASE outcome = "build_ptx_failed" -> out_dir
                        [] outcome = "write_failed" -> PutAll(out_dir, ptx_files)
                        [] OTHER -> PutAll(out_dir, ptx_files \o <<ptx_rs_file>>)
        /\ error' = CASE outcome = "build_ptx_failed" ->
                            Panic("Failed to build PTX modules with bindgen_cuda", <<>>, <<>>)
                      [] outcome = "write_failed" ->
                            Panic("Failed to write PTX bindings", <<>>, <<>>)
                      [] OTHER -> error
        /\ pc' = IF outcome = "ok" THEN "build_ok" ELSE "build_failed"
        /\ stdout' = stdout
                \o <<Line("cargo::warning=Building CUDA kernels in PTX mode (default)", <<>>),
                     Line("cargo::warning=Using bindgen_cuda: ", <<>>)>>
                \o (IF outcome = "ok"
                    THEN <<Line("cargo::warning=Successfully built PTX modules", <<>>)>>
                    ELSE <<>>)
    /\ UNCHANGED <<env, compute_cap, probe, src_seen, nvcc_runs, included,
                   modules, call>>

-----------------------------------------------------------------------------
(* build.rs: get_compute_capability / detect_from_nvidia_smi *)

all_ascii_digits(s) == \A i \in 1..Len(s) : is_ascii_digit(s[i])

detect_from_nvidia_smi_unchecked(run) ==
    IF run.spawned /\ run.success
    THEN Ok(replace_dot(trim(from_utf8_lossy(run.stdout))))
    ELSE EnvErr

\* Result<String, ()>: Ok(cap) or Err(()), for one run of nvidia-smi
detect_from_nvidia_smi(run) ==
    IF ~run.spawned THEN EnvErr
    ELSE IF run.success
         THEN LET cap == replace_dot(trim(from_utf8_lossy(run.stdout)))
              IN  IF cap # <<>> /\ all_ascii_digits(cap) THEN Ok(cap) ELSE EnvErr
         ELSE EnvErr

Resolved(cap, source, probed) ==
    [ok |-> TRUE, val |-> cap, source |-> source, probed |-> probed]
Unresolved == [ok |-> FALSE, val |-> <<>>, source |-> "none", probed |-> TRUE]

get_compute_capability_probe_first(cap_var, run) ==
    IF detect_from_nvidia_smi(run).ok
    THEN Resolved(detect_from_nvidia_smi(run).val, "probe", TRUE)
    ELSE IF cap_var.ok THEN Resolved(cap_var.val, "env", TRUE)
    ELSE Unresolved

\* cap_var is env::var("CUDA_COMPUTE_CAP"); run is what nvidia-smi does if it
\* is run (probed says whether it was)
get_compute_capability(cap_var, run) ==
    IF cap_var.ok THEN Resolved(cap_var.val, "env", FALSE)
    ELSE IF detect_from_nvidia_smi(run).ok
         THEN Resolved(detect_from_nvidia_smi(run).val, "probe", TRUE)
         ELSE Unresolved

-----------------------------------------------------------------------------
(* build.rs: build_cubin_modules, up to the compile loop *)

cubin_cfg_directive_misspelt == Line("cargo::rustc-cfg=candle_cubin", <<>>)

cubin_cfg_directive == Line("cargo::rustc-cfg=candle_cuda_cubin", <<>>)

rerun_if_changed_sources ==
    [k \in 1..Len(kernels) |->
        Line("cargo::rerun-if-changed=", src_path(kernels[k]))]

build_cubin_modules ==
    /\ pc = "build_cubin_modules"
    /\ ran' = ran \cup {"cubin"}
    /\ \E run \in ProbeRuns :
        LET r == get_compute_capability(env.CUDA_COMPUTE_CAP, run)
        IN  /\ probe' = IF r.probed THEN Append(probe, run) ELSE probe
            /\ compute_cap' = r.val
            /\ pc' = IF r.ok THEN "compile_loop" ELSE "build_failed"
            /\ error' = IF r.ok THEN error
                        ELSE Panic("Cannot detect CUDA compute capability for CUBIN build.",
                                   <<>>, <<>>)
            /\ stdout' = stdout \o <<cubin_cfg_directive>>
                \o (CASE r.source = "env" ->
                           <<Line("cargo::warning=Using CUDA compute capability from environment: sm_", r.val)>>
                      [] r.source = "probe" ->
                           <<Line("cargo::warning=Auto-detected CUDA compute capability: sm_", r.val),
                             Line("cargo::warning=To override, set CUDA_COMPUTE_CAP environment variable", <<>>)>>
                      [] OTHER -> <<>>)
                \o (IF r.ok
                    THEN <<Line("cargo::warning=Building CUDA kernels in CUBIN mode", <<>>),
                           Line("cargo::warning=Target compute capability: sm_", r.val)>>
                         \o rerun_if_changed_sources
                    ELSE <<>>)
    /\ UNCHANGED <<env, out_dir, src_seen, nvcc_runs, builder_runs, included,
                   modules, call>>

-----------------------------------------------------------------------------
(* build.rs: the compile loop and compile_cubin *)

\* Command::output() of nvcc: it could not be started, it exited non-zero,
\* it exited with success
NvccOutcomes == {"spawn_failed", "exit_nonzero", "exit_zero"}

\* the command compile_cubin builds
nvcc_command(src, dst, cap, flags_var) ==
    [program |-> "nvcc",
     fixed |-> <<"--cubin", "-O3", "--use_fast_math", "--std=c++17",
                 "--default-stream", "per-thread", "-I", "src">>,
     gpu_architecture |-> <<"s","m","_">> \o cap,
     o |-> dst,
     input |-> src,
     extra |-> IF flags_var.ok THEN split_whitespace(flags_var.val) ELSE <<>>]

kernel_step_no_exists_check(exists, outcome) ==
    CASE outcome = "spawn_failed" -> "Failed to execute nvcc."
      [] outcome = "exit_nonzero" -> "nvcc compilation failed"
      [] OTHER -> "compiled"

kernel_step_ignore_status(exists, outcome) ==
    IF ~exists THEN "Kernel source file not found"
    ELSE IF outcome = "spawn_failed" THEN "Failed to execute nvcc."
    ELSE "compiled"

\* one iteration of the loop: how it ends, given what src.exists() returns
\* and what running nvcc does
kernel_step(exists, outcome) ==
    IF ~exists THEN "Kernel source file not found"
    ELSE CASE outcome = "spawn_failed" -> "Failed to execute nvcc."
           [] outcome = "exit_nonzero" -> "nvcc compilation failed"
           [] OTHER -> "compiled"

\* whether the iteration reaches cmd.output()
runs_nvcc(exists, outcome) ==
    kernel_step(exists, outcome) # "Kernel source file not found"

compile_kernel ==
    /\ pc = "compile_loop"
    /\ LET k == Len(src_seen) + 1
           kernel_name == kernels[k]
           src == src_path(kernel_name)
           dst == dst_path(kernel_name)
       IN \E exists \in BOOLEAN, outcome \in NvccOutcomes :
           LET end == kernel_step(exists, outcome)
               invoked == runs_nvcc(exists, outcome)
           IN  /\ src_seen' = Append(src_seen, exists)
               /\ nvcc_runs' =
                    IF invoked
                    THEN Append(nvcc_runs,
                                [cmd |-> nvcc_command(src, dst, compute_cap, env.CUDA_NVCC_FLAGS),
                                 outcome |-> outcome])
                    ELSE nvcc_runs
               /\ stdout' = IF invoked
                            THEN Append(stdout, Line("cargo::warning=Compiling ", kernel_name))
                            ELSE stdout
               /\ out_dir' = IF invoked /\ outcome = "exit_zero"
                             THEN Put(out_dir, dst, FreshFile(nvcc_output(k, compute_cap)))
                             ELSE out_dir
               /\ error' = CASE end = "compiled" -> error
                             [] end = "Kernel source file not found" -> Panic(end, src, kernels)
                             [] OTHER -> Panic(end, src, <<>>)
               /\ pc' = IF end # "compiled" THEN "build_failed"
                        ELSE IF k = Len(kernels) THEN "generate_cubin_rs"
                        ELSE "compile_loop"
    /\ UNCHANGED <<env, ran, compute_cap, probe, builder_runs, included,
                   modules, call>>

-----------------------------------------------------------------------------
(* build.rs: generate_cubin_rs and the end of build_cubin_modules *)

\* File::create failed, or it succeeded and the first n write_all calls did
GenerateOutcomes ==
    {[created |-> FALSE, written |-> 0]}
    \cup {[created |-> TRUE, written |-> n] : n \in 0..Len(kernels)}

generate_cubin_rs ==
    /\ pc = "generate_cubin_rs"
    /\ \E outcome \in GenerateOutcomes :
        IF ~outcome.created
        THEN /\ error' = Panic("Failed to create", S_cubin_rs, <<>>)
             /\ pc' = "build_failed"
             /\ UNCHANGED <<out_dir, stdout>>
        ELSE /\ out_dir' = Put(out_dir, S_cubin_rs,
                    FreshFile([k \in 1..outcome.written |-> cubin_rs_line(kernels[k])]))
             /\ IF outcome.written < Len(kernels)
                THEN /\ error' = Panic("Failed to write to cubin.rs", S_cubin_rs, <<>>)
                     /\ pc' = "build_failed"
                     /\ UNCHANGED stdout
                ELSE /\ stdout' = stdout
                        \o <<Line("cargo::warning=Generated cubin.rs with {} modules", <<>>),
                             Line("cargo::warning=Successfully built {} CUBIN modules", <<>>)>>
                     /\ pc' = "build_ok"
                     /\ UNCHANGED error
    /\ UNCHANGED <<env, ran, compute_cap, probe, src_seen, nvcc_runs,
                   builder_runs, included, modules, call>>

-----------------------------------------------------------------------------
(* lib.rs, compiled by cargo after a successful build script *)

\* #[cfg(candle_cuda_cubin)]: the flag is set iff build.rs printed it
cfg_candle_cuda_cubin(out) ==
    \E i \in 1..Len(out) : out[i].line = "cargo::rustc-cfg=candle_cuda_cubin"

\* the file mod ptx / mod cubin include!s
binding_file(out) == IF cfg_candle_cuda_cubin(out) THEN S_cubin_rs ELSE S_ptx_rs

\* the payload shape the active mdl! macro builds, and the type it needs
mdl_shape(out) == IF cfg_candle_cuda_cubin(out) THEN "Cubin" ELSE "Ptx"
shape_type(shape) == IF shape = "Cubin" THEN "&[u8]" ELSE "&str"

HasConst(lines, cst) == \E i \in 1..Len(lines) : lines[i].const_name = cst
ConstLine(lines, cst) ==
    lines[CHOOSE i \in 1..Len(lines) : lines[i].const_name = cst]

\* concat!(env!("OUT_DIR"), path): the file's name in OUT_DIR
embedded_file(path) == Tail(path)

\* whether one mdl!(cst, id) compiles against the binding file's lines
mdl_compiles(m, lines, dir, shape) ==
    /\ HasConst(lines, m.cst)
    /\ ConstLine(lines, m.cst).ty = shape_type(shape)
    /\ embedded_file(ConstLine(lines, m.cst).path) \in DOMAIN dir
    /\ module_index(m.id) # IdNotFound

\* the Module constant one mdl!(cst, id) declares
mdl(m, lines, dir, shape) ==
    [cst |-> m.cst,
     id |-> m.id,
     index |-> module_index(m.id),
     data |-> [tag |-> shape,
               val |-> dir[embedded_file(ConstLine(lines, m.cst).path)].data],
     embeds |-> embedded_file(ConstLine(lines, m.cst).path)]

compile_lib ==
    /\ pc = "build_ok"
    /\ LET file == binding_file(stdout)
           shape == mdl_shape(stdout)
       IN  IF /\ file \in DOMAIN out_dir
              /\ \A j \in 1..Len(mdl_invocations) :
                    mdl_compiles(mdl_invocations[j], out_dir[file].data, out_dir, shape)
           THEN /\ included' = file
                /\ modules' = [j \in 1..Len(mdl_invocations) |->
                                 mdl(mdl_invocations[j], out_dir[file].data, out_dir, shape)]
                /\ pc' = "lib_compiled"
           ELSE /\ pc' = "lib_failed"
                /\ UNCHANGED <<included, modules>>
    /\ UNCHANGED <<env, out_dir, stdout, ran, compute_cap, probe, src_seen,
                   nvcc_runs, builder_runs, error, call>>

-----------------------------------------------------------------------------
(* lib.rs: the accessors of Module *)

\* str::as_bytes: the UTF-8 encoding of the text's code points
utf8_char(c) ==
    IF c < 128 THEN <<c>>
    ELSE IF c < 2048 THEN <<192 + (c \div 64), 128 + (c % 64)>>
    ELSE IF c < 65536
         THEN <<224 + (c \div 4096), 128 + ((c \div 64) % 64), 128 + (c % 64)>>
         ELSE <<240 + (c \div 262144), 128 + ((c \div 4096) % 64),
                128 + ((c \div 64) % 64), 128 + (c % 64)>>

RECURSIVE str_as_bytes(_)
str_as_bytes(s) ==
    IF s = <<>> THEN <<>> ELSE utf8_char(Head(s)) \o str_as_bytes(Tail(s))

Returned(v) == [panicked |-> FALSE, ret |-> v]
Panicked == [panicked |-> TRUE, ret |-> <<>>]

\* Module::as_bytes
as_bytes(data) ==
    IF data.tag = "Ptx" THEN Returned(str_as_bytes(data.val))
    ELSE Returned(data.val)

ptx_lenient(data) ==
    IF data.tag = "Ptx" THEN Returned(data.val) ELSE Returned(<<>>)

\* Module::ptx
ptx(data) ==
    IF data.tag = "Ptx" THEN Returned(data.val) ELSE Panicked

CallResult(fn, k, r) ==
    [fn |-> fn, module |-> k, panicked |-> r.panicked, ret |-> r.ret]

module_as_bytes ==
    /\ pc = "lib_compiled"
    /\ \E k \in 1..Len(modules) :
        call' = CallResult("as_bytes", k, as_bytes(modules[k].data))
    /\ UNCHANGED <<env, out_dir, pc, stdout, ran, compute_cap, probe, src_seen,
                   nvcc_runs, builder_runs, error, included, modules>>

module_ptx ==
    /\ pc = "lib_compiled"
    /\ \E k \in 1..Len(modules) :
        call' = CallResult("ptx", k, ptx(modules[k].data))
    /\ UNCHANGED <<env, out_dir, pc, stdout, ran, compute_cap, probe, src_seen,
                   nvcc_runs, builder_runs, error, included, modules>>

-----------------------------------------------------------------------------

Next ==
    \/ main
    \/ build_ptx_modules
    \/ build_cubin_modules
    \/ compile_kernel
    \/ generate_cubin_rs
    \/ compile_lib
    \/ module_as_bytes
    \/ module_ptx

Spec == Init /\ [][Next]_vars

-----------------------------------------------------------------------------
(* Vocabulary of the properties *)

Selector == env.CANDLE_CUDA_MODULE_FORMAT
Override == env.CUDA_COMPUTE_CAP

BuildEnded == pc \in {"build_ok", "build_failed", "lib_compiled", "lib_failed"}

\* no subprocess was started, the external builder was not called, and no
\* file of OUT_DIR was created or rewritten
NothingAttempted ==
    /\ ran = {}
    /\ probe = <<>>
    /\ nvcc_runs = <<>>
    /\ builder_runs = <<>>
    /\ \A n \in DOMAIN out_dir : ~out_dir[n].fresh

ConfigError(value) ==
    /\ pc = "build_failed"
    /\ error.kind = "Invalid CANDLE_CUDA_MODULE_FORMAT"
    /\ error.subject = value
    /\ NothingAttempted

CubinRsGenerated == S_cubin_rs \in DOMAIN out_dir /\ out_dir[S_cubin_rs].fresh

\* the <cap> of --gpu-architecture=sm_<cap> in the i-th nvcc invocation
ArchOf(i) ==
    SubSeq(nvcc_runs[i].cmd.gpu_architecture, 4,
           Len(nvcc_runs[i].cmd.gpu_architecture))

DigitString(s) == s # <<>> /\ \A i \in 1..Len(s) : s[i] \in Digits

-----------------------------------------------------------------------------
(* C1 *)

\* C1 as stated: at most one strategy ever runs; with the selector unset or
\* exactly 'ptx' or 'cubin' exactly one strategy has run when the build ends;
\* with any other selector value the build ends in the configuration error
\* naming that value, nothing having been attempted.
C1_AsStated ==
    /\ Cardinality(ran) <= 1
    /\ (~Selector.ok \/ Selector.val \in {S_ptx, S_cubin})
          => (BuildEnded => Cardinality(ran) = 1)
    /\ (Selector.ok /\ Selector.val \notin {S_ptx, S_cubin})
          => (pc # "main" => ConfigError(Selector.val))

\* C1, amended: the selector is compared after lower-casing. Unset or
\* lower-casing to 'ptx' runs exactly build_ptx_modules, lower-casing to
\* 'cubin' runs exactly build_cubin_modules; any other value ends the build
\* in the configuration error naming the lower-cased value, before any
\* subprocess or builder call and before any file is written.
C1_FormatSelection ==
    LET folded == IF Selector.ok THEN to_lowercase(Selector.val) ELSE S_ptx
    IN  /\ Cardinality(ran) <= 1
        /\ pc # "main" =>
            /\ folded = S_ptx => (ran \subseteq {"ptx"} /\ (BuildEnded => ran = {"ptx"}))
            /\ folded = S_cubin => (ran \subseteq {"cubin"} /\ (BuildEnded => ran = {"cubin"}))
            /\ folded \notin {S_ptx, S_cubin} => ConfigError(folded)

\* an unrecognized mixed-case selector has been rejected
C1_Witness ==
    /\ Selector = Ok(<<"F","a","t","b","i","n">>)
    /\ ConfigError(<<"f","a","t","b","i","n">>)

-----------------------------------------------------------------------------
(* C2 *)

ResolutionDone == "cubin" \in ran
ResolutionError ==
    /\ pc = "build_failed"
    /\ error.kind = "Cannot detect CUDA compute capability for CUBIN build."
    /\ nvcc_runs = <<>>

\* C2: once get_compute_capability has run, an override that is present is
\* the resolved architecture verbatim and nvidia-smi was not consulted; with
\* the override absent nvidia-smi was run once and its result is the resolved
\* architecture, or, if it failed, the build ended in the resolution error
\* with no compiler invocation; every compiler invocation targets the
\* resolved architecture.
C2_ResolutionPriority ==
    ResolutionDone =>
        /\ Override.ok =>
              /\ compute_cap = Override.val
              /\ probe = <<>>
              /\ ~ResolutionError
        /\ ~Override.ok =>
              /\ Len(probe) = 1
              /\ IF probe[1].spawned /\ probe[1].success
                    /\ DigitString(replace_dot(trim(from_utf8_lossy(probe[1].stdout))))
                 THEN /\ compute_cap = replace_dot(trim(from_utf8_lossy(probe[1].stdout)))
                      /\ ~ResolutionError
                 ELSE ResolutionError
        /\ \A i \in 1..Len(nvcc_runs) : ArchOf(i) = compute_cap

\* the override 86 was resolved and reached the compiler
C2_Witness ==
    /\ Override = Ok(<<"8","6">>)
    /\ Len(nvcc_runs) > 0
    /\ ArchOf(1) = <<"8","6">>

-----------------------------------------------------------------------------
(* C3 *)

\* C3 as stated: every architecture string handed to nvcc is a non-empty
\* string of decimal digits.
C3_AsStated == \A i \in 1..Len(nvcc_runs) : DigitString(ArchOf(i))

\* C3, amended: an architecture string that came from the hardware probe is
\* a non-empty string of decimal digits; an override is handed to nvcc
\* verbatim, without validation.
C3_ArchitectureFormat ==
    \A i \in 1..Len(nvcc_runs) :
        IF Override.ok THEN ArchOf(i) = Override.val
        ELSE DigitString(ArchOf(i))

\* a probed architecture reached the compiler
C3_Witness ==
    /\ ~Override.ok
    /\ Len(nvcc_runs) > 0
    /\ Len(probe) = 1

-----------------------------------------------------------------------------
(* C4 *)

RECURSIVE C4_FirstLine(_)
C4_FirstLine(s) ==
    IF s = <<>> \/ Head(s) = "\n" THEN <<>>
    ELSE <<Head(s)>> \o C4_FirstLine(Tail(s))

C4_Stripped(s) == replace_dot(trim(C4_FirstLine(from_utf8_lossy(s))))

\* C4 as stated: a successful run of nvidia-smi whose first output line is a
\* capability (digits once the separator is stripped) resolves to that first
\* line with the separator stripped, whether or not further lines follow.
C4_AsStated ==
    (ResolutionDone /\ ~Override.ok /\ Len(probe) = 1
        /\ probe[1].spawned /\ probe[1].success
        /\ DigitString(C4_Stripped(probe[1].stdout))) =>
        /\ compute_cap = C4_Stripped(probe[1].stdout)
        /\ ~ResolutionError

-----------------------------------------------------------------------------
(* C5 *)

\* C5: in every state, a unit whose source was found missing is the last one
\* the loop looked at, the build has failed with the error naming that
\* unit's source path and listing the whole catalog, nvcc has been invoked
\* exactly for the units before it, in catalog order, and cubin.rs has not
\* been generated.
C5_CatalogDrift ==
    \A k \in 1..Len(src_seen) :
        ~src_seen[k] =>
            /\ k = Len(src_seen)
            /\ pc = "build_failed"
            /\ error = Panic("Kernel source file not found",
                             S_src_dir \o kernels[k] \o S_cu, kernels)
            /\ Len(nvcc_runs) = k - 1
            /\ \A j \in 1..(k - 1) :
                  nvcc_runs[j].cmd.input = S_src_dir \o kernels[j] \o S_cu
            /\ ~CubinRsGenerated

\* affine was compiled and binary's source was found missing
C5_Witness ==
    /\ src_seen = <<TRUE, FALSE>>
    /\ Len(nvcc_runs) = 1
    /\ error.kind = "Kernel source file not found"

-----------------------------------------------------------------------------
(* C6 *)

\* C6: an nvcc run that could not be started or exited non-zero is the last
\* one, and the build has failed without generating cubin.rs; no unit is
\* compiled twice; cubin.rs and the success trace exist only when nvcc
\* returned success for every unit of the catalog.
C6_AllOrNothing ==
    /\ \A i \in 1..Len(nvcc_runs) :
          nvcc_runs[i].outcome # "exit_zero" =>
              /\ i = Len(nvcc_runs)
              /\ pc = "build_failed"
              /\ error.kind \in {"Failed to execute nvcc.", "nvcc compilation failed"}
              /\ ~CubinRsGenerated
    /\ \A i, j \in 1..Len(nvcc_runs) :
          i # j => nvcc_runs[i].cmd.input # nvcc_runs[j].cmd.input
    /\ (CubinRsGenerated
          \/ \E i \in 1..Len(stdout) :
                stdout[i].line = "cargo::warning=Successfully built {} CUBIN modules")
          => /\ Len(nvcc_runs) = Len(kernels)
             /\ \A i \in 1..Len(nvcc_runs) : nvcc_runs[i].outcome = "exit_zero"

\* the third unit's compilation exited non-zero
C6_Witness ==
    /\ Len(nvcc_runs) = 3
    /\ nvcc_runs[3].outcome = "exit_nonzero"
    /\ pc = "build_failed"

-----------------------------------------------------------------------------
(* C7 *)

SelectedCubin == Selector.ok /\ to_lowercase(Selector.val) = S_cubin

AllShaped(shape, file) ==
    /\ included = file
    /\ file \in DOMAIN out_dir /\ out_dir[file].fresh
    /\ \A j \in 1..Len(modules) :
          /\ modules[j].data.tag = shape
          /\ out_dir[modules[j].embeds].fresh

\* C7: the candle_cuda_cubin flag has been printed iff the binary strategy
\* has been entered, and at the end of a build iff it was selected; lib.rs
\* always compiles against a finished build, and then every Module is
\* Cubin-shaped and wired to the cubin.rs (and .cubin files) this build wrote
\* if the binary strategy was selected, and Ptx-shaped and wired to the
\* ptx.rs this build wrote otherwise.
C7_PayloadShape ==
    /\ cfg_candle_cuda_cubin(stdout) <=> "cubin" \in ran
    /\ BuildEnded /\ error.kind # "Invalid CANDLE_CUDA_MODULE_FORMAT"
          => (cfg_candle_cuda_cubin(stdout) <=> SelectedCubin)
    /\ pc # "lib_failed"
    /\ pc = "lib_compiled" =>
          /\ Len(modules) = Len(mdl_invocations)
          /\ IF SelectedCubin THEN AllShaped("Cubin", S_cubin_rs)
             ELSE AllShaped("Ptx", S_ptx_rs)

\* a binary build compiled into lib.rs while a stale ptx.rs lay in OUT_DIR
C7_Witness ==
    /\ pc = "lib_compiled"
    /\ included = S_cubin_rs
    /\ S_ptx_rs \in DOMAIN out_dir
    /\ modules[1].data.tag = "Cubin"

-----------------------------------------------------------------------------
(* C8 *)

C8_Malformed == <<0 - 1>>

\* the code points a UTF-8 byte string encodes
RECURSIVE C8_Decode(_)
C8_Decode(b) ==
    IF b = <<>> THEN <<>>
    ELSE IF b[1] < 128 THEN <<b[1]>> \o C8_Decode(Tail(b))
    ELSE IF b[1] >= 192 /\ b[1] < 224 /\ Len(b) >= 2
         THEN <<(b[1] - 192) * 64 + (b[2] - 128)>> \o C8_Decode(SubSeq(b, 3, Len(b)))
    ELSE IF b[1] >= 224 /\ b[1] < 240 /\ Len(b) >= 3
         THEN <<(b[1] - 224) * 4096 + (b[2] - 128) * 64 + (b[3] - 128)>>
              \o C8_Decode(SubSeq(b, 4, Len(b)))
    ELSE C8_Malformed

\* C8: Module::ptx() returns the text of a Ptx handle and panics, returning
\* nothing, on a Cubin handle; Module::as_bytes() never panics, returns the
\* embedded file's bytes unchanged for a Cubin handle and bytes that are the
\* UTF-8 encoding of the text for a Ptx handle.
C8_Accessors ==
    call.fn # "none" =>
        LET data == modules[call.module].data
            file == out_dir[modules[call.module].embeds].data
        IN  /\ call.fn = "ptx" =>
                IF data.tag = "Ptx"
                THEN ~call.panicked /\ call.ret = file
                ELSE call.panicked
            /\ call.fn = "as_bytes" =>
                /\ ~call.panicked
                /\ \A i \in 1..Len(call.ret) : call.ret[i] \in 0..255
                /\ IF data.tag = "Cubin" THEN call.ret = file
                   ELSE C8_Decode(call.ret) = file /\ Len(call.ret) > Len(file)

\* the text accessor was called on a binary-shaped handle
C8_Witness ==
    /\ call.fn = "ptx"
    /\ call.panicked
    /\ modules[call.module].data.tag = "Cubin"

-----------------------------------------------------------------------------
(* C9 *)

\* C9: module_index(ALL_IDS[i]) = i for every i; and in either build the
\* Module at position k of lib.rs has index k (from 0), the k-th variant of
\* Id as identifier, and the k-th kernel of build.rs' catalog, upper-cased,
\* as name.
C9_IndexStability ==
    /\ \A i \in 0..(Len(ALL_IDS) - 1) : module_index(ALL_IDS[i + 1]) = i
    /\ Len(ALL_IDS) = Len(kernels) /\ Len(Id) = Len(kernels)
    /\ pc # "lib_failed"
    /\ pc = "lib_compiled" =>
          /\ Len(modules) = Len(kernels)
          /\ \A k \in 1..Len(modules) :
                /\ modules[k].index = k - 1
                /\ modules[k].id = Id[k]
                /\ Len(modules[k].cst) = Len(kernels[k])
                /\ \A c \in 1..Len(kernels[k]) :
                      LowerChar(modules[k].cst[c]) = kernels[k][c]
                      /\ modules[k].cst[c] \notin {Lower[x] : x \in 1..Len(Lower)}

\* the last handle of a binary build
C9_Witness ==
    /\ pc = "lib_compiled"
    /\ Len(modules) = Len(kernels)
    /\ modules[Len(kernels)].data.tag = "Cubin"
    /\ modules[Len(kernels)].index = Len(kernels) - 1

-----------------------------------------------------------------------------
(* C10 *)

C10_CubinBuildOk == "cubin" \in ran /\ pc \in {"build_ok", "lib_compiled", "lib_failed"}

\* C10: binding generation starts only once nvcc has been invoked exactly
\* once per catalog unit, in catalog order, each with its own output path
\* <unit>.cubin; after a successful binary build cubin.rs holds exactly one
\* constant per unit, in catalog order, named as the unit upper-cased and
\* embedding that unit's output path.
C10_DirectBuildOutput ==
    /\ (pc = "generate_cubin_rs" \/ CubinRsGenerated \/ C10_CubinBuildOk) =>
          /\ Len(nvcc_runs) = Len(kernels)
          /\ \A k \in 1..Len(kernels) :
                /\ nvcc_runs[k].outcome = "exit_zero"
                /\ nvcc_runs[k].cmd.input = S_src_dir \o kernels[k] \o S_cu
                /\ nvcc_runs[k].cmd.o = kernels[k] \o S_dot_cubin
                /\ out_dir[nvcc_runs[k].cmd.o].fresh
          /\ \A j, k \in 1..Len(kernels) :
                j # k => nvcc_runs[j].cmd.o # nvcc_runs[k].cmd.o
    /\ C10_CubinBuildOk =>
          /\ CubinRsGenerated
          /\ Len(out_dir[S_cubin_rs].data) = Len(kernels)
          /\ \A k \in 1..Len(kernels) :
                LET line == out_dir[S_cubin_rs].data[k]
                IN  /\ line.const_name = [c \in 1..Len(kernels[k]) |-> UpperChar(kernels[k][c])]
                    /\ line.const_name # kernels[k]
                    /\ line.path = <<"/">> \o nvcc_runs[k].cmd.o

\* a binary build that succeeded
C10_Witness ==
    /\ pc = "build_ok"
    /\ "cubin" \in ran
    /\ Len(nvcc_runs) = Len(kernels)

====
